---- MODULE Spec2Model ----
(***************************************************************************)
(* A model of app.py: the WhatsApp expenses bot.  The webhook handler is   *)
(* modelled step by step (one step per access to the session table, the    *)
(* ledger tables, the remote mirror or the WhatsApp API), so that several  *)
(* requests can be interleaved the way a threaded server interleaves them. *)
(*                                                                         *)
(* Strings are sequences of one-character strings, so that strip, lower,   *)
(* split and startswith are computed and not assumed.  Amounts are in      *)
(* cents.                                                                  *)
(***************************************************************************)
EXTENDS Integers, Sequences, FiniteSets, TLC

(***************************************************************************)
(* Python string operations used by the handler.                           *)
(***************************************************************************)

\* The characters str.strip() and str.split() treat as white space.
Whitespace == {" ", "\t", "\n"}

\* str.lower() on one character (the letters the inputs use).
LowerChar(c) ==
  CASE c = "A" -> "a" [] c = "B" -> "b" [] c = "C" -> "c" [] c = "D" -> "d"
    [] c = "E" -> "e" [] c = "F" -> "f" [] c = "G" -> "g" [] c = "H" -> "h"
    [] c = "I" -> "i" [] c = "J" -> "j" [] c = "K" -> "k" [] c = "L" -> "l"
    [] c = "M" -> "m" [] c = "N" -> "n" [] c = "O" -> "o" [] c = "P" -> "p"
    [] c = "Q" -> "q" [] c = "R" -> "r" [] c = "S" -> "s" [] c = "T" -> "t"
    [] c = "U" -> "u" [] c = "V" -> "v" [] c = "W" -> "w" [] c = "X" -> "x"
    [] c = "Y" -> "y" [] c = "Z" -> "z" [] OTHER -> c

\* str.lower()
Lower(s) == [i \in 1..Len(s) |-> LowerChar(s[i])]

RECURSIVE LStrip(_)
LStrip(s) ==
  IF s # <<>> /\ Head(s) \in Whitespace THEN LStrip(Tail(s)) ELSE s

RECURSIVE RStrip(_)
RStrip(s) ==
  IF s # <<>> /\ s[Len(s)] \in Whitespace
  THEN RStrip(SubSeq(s, 1, Len(s) - 1)) ELSE s

\* str.strip()
Strip(s) == RStrip(LStrip(s))

\* str.startswith(prefix)
StartsWith(s, prefix) ==
  /\ Len(s) >= Len(prefix)
  /\ SubSeq(s, 1, Len(prefix)) = prefix

\* str.split(): the maximal runs of non-white-space characters, in order.
RECURSIVE SplitFrom(_, _, _)
SplitFrom(s, word, acc) ==
  IF s = <<>>
  THEN IF word = <<>> THEN acc ELSE Append(acc, word)
  ELSE IF Head(s) \in Whitespace
       THEN SplitFrom(Tail(s), <<>>,
                      IF word = <<>> THEN acc ELSE Append(acc, word))
       ELSE SplitFrom(Tail(s), Append(word, Head(s)), acc)

Split(s) == SplitFrom(s, <<>>, <<>>)

(***************************************************************************)
(* Catalog, keywords and the inbound texts.                                *)
(***************************************************************************)

\* None of Python, also SQL NULL.
None == "None"

\* CATEGORIES: the keys are the strings "1" .. "8".
CategoryKeys == {<<"1">>, <<"2">>, <<"3">>, <<"4">>, <<"5">>, <<"6">>, <<"7">>, <<"8">>}

CATEGORIES(k) ==
  CASE k = <<"1">> -> "Renta"
    [] k = <<"2">> -> "Credit card bill"
    [] k = <<"3">> -> "Medical bill"
    [] k = <<"4">> -> "Utility bill"
    [] k = <<"5">> -> "Car payment"
    [] k = <<"6">> -> "Restaurante"
    [] k = <<"7">> -> "Groceries & housekeeping"
    [] k = <<"8">> -> "Traveling"

TRIGGERS ==
  { <<"i", "n", "g", "r", "e", "s", "a", "r", " ", "g", "a", "s", "t", "o">>,
    <<"i", "n", "g", "r", "e", "s", "a", "r", " ", "u", "n", " ", "g", "a", "s", "t", "o">>,
    <<"g", "a", "s", "t", "o">>,
    <<"n", "u", "e", "v", "o", " ", "g", "a", "s", "t", "o">> }

\* The two spellings of "deposito" differ in one character outside ASCII,
\* written here as the one-character string "o'".
INCOME_TRIGGERS ==
  { <<"i", "n", "g", "r", "e", "s", "a", "r", " ", "i", "n", "g", "r", "e", "s", "o">>,
    <<"n", "u", "e", "v", "o", " ", "i", "n", "g", "r", "e", "s", "o">>,
    <<"i", "n", "g", "r", "e", "s", "o">>,
    <<"d", "e", "p", "o", "s", "i", "t", "o">>,
    <<"d", "e", "p", "o'", "s", "i", "t", "o">> }

RESET_WORDS ==
  { <<"r", "e", "s", "e", "t">>, <<"r", "e", "i", "n", "i", "c", "i", "a", "r">>, <<"c", "a", "n", "c", "e", "l">>, <<"c", "a", "n", "c", "e", "l", "a", "r">> }

W_estado == <<"e", "s", "t", "a", "d", "o">>
W_resumen == <<"r", "e", "s", "u", "m", "e", "n">>
W_saldo == <<"s", "a", "l", "d", "o">>
W_mes == <<"m", "e", "s">>
DayTokens == { <<"7">>, <<"1", "5">>, <<"3", "0">> }

\* int() of a day token or of a category key.
RECURSIVE IntOf(_)
DigitVal(c) ==
  CASE c = "0" -> 0 [] c = "1" -> 1 [] c = "2" -> 2 [] c = "3" -> 3
    [] c = "4" -> 4 [] c = "5" -> 5 [] c = "6" -> 6 [] c = "7" -> 7
    [] c = "8" -> 8 [] c = "9" -> 9
IntOf(s) ==
  IF s = <<>> THEN 0 ELSE 10 * IntOf(SubSeq(s, 1, Len(s) - 1)) + DigitVal(s[Len(s)])

Digits == {"0", "1", "2", "3", "4", "5", "6", "7", "8", "9"}

(***************************************************************************)
(* normalize_amount: the first match of [-+]?\d*\.?\d+ in the text with    *)
(* every "," replaced by ".", as a number of cents (round(float, 2)).      *)
(***************************************************************************)

\* text.replace(",", ".") with a slip: the text is left as it is.
ReplaceCommaNot(s) == s

\* text.replace(",", ".")
ReplaceComma(s) == [i \in 1..Len(s) |-> IF s[i] = "," THEN "." ELSE s[i]]

\* The length of the run of digits of s that starts at position i.
RECURSIVE DigitRun(_, _)
DigitRun(s, i) ==
  IF i <= Len(s) /\ s[i] \in Digits THEN 1 + DigitRun(s, i + 1) ELSE 0

\* The match of the pattern that starts at position i (found = FALSE when
\* there is none).  The greedy \d* takes the whole run of digits; a "." is
\* taken only when a digit follows it; without a fraction the run itself
\* must hold a digit.
MatchAt(s, i) ==
  LET signed == s[i] \in {"-", "+"}
      j == IF signed THEN i + 1 ELSE i
      r == DigitRun(s, j)
      k == j + r
      f == IF k <= Len(s) /\ s[k] = "." THEN DigitRun(s, k + 1) ELSE 0
  IN  [found |-> f >= 1 \/ r >= 1,
       neg |-> signed /\ s[i] = "-",
       int |-> SubSeq(s, j, k - 1),
       frac |-> IF f >= 1 THEN SubSeq(s, k + 1, k + f) ELSE <<>>]

\* re.search: the match at the leftmost position that has one.
RECURSIVE SearchFrom(_, _)
SearchFrom(s, i) ==
  IF i > Len(s) THEN [found |-> FALSE, neg |-> FALSE, int |-> <<>>, frac |-> <<>>]
  ELSE IF MatchAt(s, i).found THEN MatchAt(s, i)
       ELSE SearchFrom(s, i + 1)

\* round(float(m.group()), 2) in cents.  The digits after the second
\* decimal round to the nearest cent; an exact decimal tie goes to the even
\* cent.
RoundCents(m) ==
  LET whole == IntOf(m.int)
      f1 == IF Len(m.frac) >= 1 THEN DigitVal(m.frac[1]) ELSE 0
      f2 == IF Len(m.frac) >= 2 THEN DigitVal(m.frac[2]) ELSE 0
      rest == IF Len(m.frac) > 2 THEN SubSeq(m.frac, 3, Len(m.frac)) ELSE <<>>
      base == whole * 100 + f1 * 10 + f2
      half == rest # <<>> /\ rest[1] = "5"
                /\ \A i \in 2..Len(rest) : rest[i] = "0"
      above == rest # <<>> /\ DigitVal(rest[1]) >= 5 /\ ~half
      up == above \/ (half /\ base % 2 = 1)
      mag == IF up THEN base + 1 ELSE base
  IN  IF m.neg THEN 0 - mag ELSE mag

\* An optional value: <<>> is None, <<v>> is the value v.
NoneOpt == <<>>
Some(v) == <<v>>

\* Some(cents), or NoneOpt where the code returns None.
normalize_amount(text) ==
  LET m == SearchFrom(ReplaceComma(text), 1)
  IN  IF m.found THEN Some(RoundCents(m)) ELSE NoneOpt

(***************************************************************************)
(* Time: epoch seconds, and the civil calendar of America/New_York (TZ).   *)
(***************************************************************************)

DAY == 86400
HOUR == 3600

\* Days from 1970-01-01 to the civil date y-m-d (proleptic Gregorian), in
\* stages: the year counted from March, the day of that year, the day of
\* the 400-year era.
DaysOfEra(era, yoe, doy) ==
  era * 146097 + (yoe * 365 + yoe \div 4 - yoe \div 100 + doy) - 719468

DaysOfYear(yy, mp, d) ==
  DaysOfEra(yy \div 400, yy % 400, (153 * mp + 2) \div 5 + d - 1)

days_from_civil(y, m, d) ==
  DaysOfYear(IF m <= 2 THEN y - 1 ELSE y, IF m > 2 THEN m - 3 ELSE m + 9, d)

\* The civil date of day number z: [year, month, day], by the inverse stages.
CivilOfMonth(y, m, d) ==
  [year |-> IF m <= 2 THEN y + 1 ELSE y, month |-> m, day |-> d]

CivilOfMp(y, doy, mp) ==
  CivilOfMonth(y, IF mp < 10 THEN mp + 3 ELSE mp - 9,
               doy - (153 * mp + 2) \div 5 + 1)

CivilOfDoy(y, doy) == CivilOfMp(y, doy, (5 * doy + 2) \div 153)

CivilOfYoe(era, doe, yoe) ==
  CivilOfDoy(yoe + era * 400, doe - (365 * yoe + yoe \div 4 - yoe \div 100))

CivilOfDoe(era, doe) ==
  CivilOfYoe(era, doe,
             (doe - doe \div 1460 + doe \div 36524 - doe \div 146096) \div 365)

civil_from_days(z) ==
  CivilOfDoe((z + 719468) \div 146097, (z + 719468) % 146097)

\* The day number of the k-th Sunday of the month whose first day is day
\* number first (day 0, the first of January 1970, was a Thursday).
SundayFrom(first, k) == first + ((7 - ((first + 4) % 7)) % 7) + 7 * (k - 1)

NthSunday(y, m, k) == SundayFrom(days_from_civil(y, m, 1), k)

\* Daylight time runs from the second Sunday of March, 02:00 standard time
\* (07:00 UTC), to the first Sunday of November, 02:00 daylight time
\* (06:00 UTC).
DstOfYearAtInstant(e, y) ==
  /\ NthSunday(y, 3, 2) * DAY + 7 * HOUR <= e
  /\ e < NthSunday(y, 11, 1) * DAY + 6 * HOUR

\* The UTC offset (seconds west of UTC) in force at the instant e.
OffsetAtInstant(e) ==
  IF DstOfYearAtInstant(e, civil_from_days(e \div DAY).year)
  THEN 4 * HOUR ELSE 5 * HOUR

\* A wall-clock time w (seconds of the local calendar, fold = 0): a time in
\* the spring gap takes the offset before the change, a repeated time in the
\* autumn is the first occurrence.
DstOfYearAtWall(w, y) ==
  /\ NthSunday(y, 3, 2) * DAY + 3 * HOUR <= w
  /\ w < NthSunday(y, 11, 1) * DAY + 2 * HOUR

\* The UTC offset zoneinfo gives the wall-clock time w.
OffsetAtWall(w) ==
  IF DstOfYearAtWall(w, civil_from_days(w \div DAY).year)
  THEN 4 * HOUR ELSE 5 * HOUR

\* datetime.now(TZ) as wall-clock seconds, for the instant t.
WallOf(t) == t - OffsetAtInstant(t)

\* datetime.timestamp() of a wall-clock time.
TimestampOf(w) == w + OffsetAtWall(w)

MonthLabel(y, m) == [kind |-> "mes", year |-> y, month |-> m, days |-> 0]
DaysLabel(n_days) == [kind |-> "dias", year |-> 0, month |-> 0, days |-> n_days]

\* month_bounds_epoch_ny with a slip: the zone is taken to be five hours
\* west of UTC all year.
MonthBoundsFixedOffset(c) ==
  [start_epoch |-> days_from_civil(c.year, c.month, 1) * DAY + 5 * HOUR,
   end_epoch |->
     IF c.month = 12
     THEN days_from_civil(c.year + 1, 1, 1) * DAY + 5 * HOUR
     ELSE days_from_civil(c.year, c.month + 1, 1) * DAY + 5 * HOUR,
   label |-> MonthLabel(c.year, c.month)]

\* month_bounds_epoch_ny for the civil date c of now: start_ny is the first
\* of the month at 00:00, next_month_ny the first of the next month.
MonthBoundsOf(c) ==
  [start_epoch |-> TimestampOf(days_from_civil(c.year, c.month, 1) * DAY),
   end_epoch |->
     TimestampOf(IF c.month = 12
                 THEN days_from_civil(c.year + 1, 1, 1) * DAY
                 ELSE days_from_civil(c.year, c.month + 1, 1) * DAY),
   label |-> MonthLabel(c.year, c.month)]

month_bounds_epoch_ny(t) == MonthBoundsOf(civil_from_days(WallOf(t) \div DAY))

last_n_days_bounds_epoch_ny(t, n_days) ==
  [start_epoch |-> TimestampOf(WallOf(t) - n_days * DAY),
   end_epoch |-> t,
   label |-> DaysLabel(n_days)]

(***************************************************************************)
(* The inbound events the model feeds the webhook.                         *)
(***************************************************************************)

Users == {"u1", "u2"}

\* A missing "from" (msg.get("from") is None), and the user of an entry
\* parse_sender_and_message could not read.
NoUser == "None"

B_reset == <<"r", "e", "s", "e", "t">>
B_Cancelar == <<" ", "C", "a", "n", "c", "e", "l", "a", "r", " ">>
B_estado == <<"e", "s", "t", "a", "d", "o">>
B_resumen == <<"r", "e", "s", "u", "m", "e", "n">>
B_resumen_mes == <<"R", "e", "s", "u", "m", "e", "n", " ", "m", "e", "s">>
B_resumen_6_7 == <<"r", "e", "s", "u", "m", "e", "n", " ", "6", " ", "7">>
B_saldo == <<"s", "a", "l", "d", "o">>
B_saldo_7 == <<"S", "a", "l", "d", "o", " ", " ", "7">>
B_gasto == <<"g", "a", "s", "t", "o">>
B_ingreso == <<"n", "u", "e", "v", "o", " ", "i", "n", "g", "r", "e", "s", "o">>
B_12_5 == <<"1", "2", ".", "5">>
B_25_50 == <<"2", "5", ",", "5", "0">>
B_zero == <<"0">>
B_hola == <<"h", "o", "l", "a">>
B_6 == <<"6">>
B_9 == <<"9">>
B_x == <<"x">>
B_Salario == <<"S", "a", "l", "a", "r", "i", "o">>
B_title6 == <<"6", ".", " ", "R", "e", "s", "t", "a", "u", "r", "a", "n", "t", "e">>

\* The bodies of the text messages.
Bodies ==
  { B_reset, B_Cancelar, B_estado, B_resumen, B_resumen_mes, B_resumen_6_7,
    B_saldo, B_saldo_7, B_gasto, B_ingreso, B_12_5, B_25_50, B_zero, B_hola,
    B_6, B_9, B_x, B_Salario }

\* The bodies the second user sends.
OtherBodies == {B_reset, B_estado, B_resumen_mes, B_saldo_7, B_gasto, B_6}

TextEntry(u, b) == [from |-> u, type |-> "text", body |-> b, id |-> NoneOpt]
ListReply(u, i, t) == [from |-> u, type |-> "interactive", body |-> t, id |-> Some(i)]

\* Every entry a delivery may hold: text messages and list replies of the
\* users, a message without sender, and an entry without messages (a
\* delivery status).
Entries ==
  {TextEntry("u1", b) : b \in Bodies}
    \cup {TextEntry("u2", b) : b \in OtherBodies}
    \cup {ListReply(u, B_6, B_title6) : u \in Users}
    \cup {TextEntry(NoUser, B_gasto),
          [from |-> NoUser, type |-> "status", body |-> <<>>, id |-> NoneOpt]}

\* parse_sender_and_message: (user, text, reply_id).
parse_sender_and_message(entry) ==
  IF entry.type = "status"
  THEN [user |-> NoUser, text |-> <<>>, reply_id |-> NoneOpt]
  ELSE IF entry.type = "text"
  THEN [user |-> entry.from, text |-> Strip(entry.body), reply_id |-> NoneOpt]
  ELSE [user |-> entry.from, text |-> Strip(entry.body),
        reply_id |-> Some(Strip(entry.id[1]))]

(***************************************************************************)
(* The session table and the ledger tables (SQLite).                       *)
(***************************************************************************)

States ==
  {"idle", "awaiting_amount", "awaiting_category", "awaiting_income_amount",
   "awaiting_income_source"}

\* A user without a row in sessions.
NoRow == [present |-> FALSE, state |-> "idle", amount |-> NoneOpt]

\* get_session with a slip: the amount of the row is not returned.
get_session_without_amount(table, user) ==
  IF table[user].present
  THEN [sess |-> [state |-> table[user].state, amount |-> NoneOpt],
        table |-> table]
  ELSE [sess |-> [state |-> "idle", amount |-> NoneOpt],
        table |-> [table EXCEPT ![user] =
                     [present |-> TRUE, state |-> "idle", amount |-> NoneOpt]]]

\* get_session: the dict it returns, and the table it leaves (a missing row
\* is inserted as idle with no amount).
get_session(table, user) ==
  IF table[user].present
  THEN [sess |-> [state |-> table[user].state, amount |-> table[user].amount],
        table |-> table]
  ELSE [sess |-> [state |-> "idle", amount |-> NoneOpt],
        table |-> [table EXCEPT ![user] =
                     [present |-> TRUE, state |-> "idle", amount |-> NoneOpt]]]

\* set_session with a slip: on a conflict only the state is updated.
set_session_state_only(table, user, state, amount) ==
  [table EXCEPT ![user] =
     [present |-> TRUE, state |-> state,
      amount |-> IF table[user].present THEN table[user].amount ELSE amount]]

\* set_session: the upsert.
set_session(table, user, state, amount) ==
  [table EXCEPT ![user] = [present |-> TRUE, state |-> state, amount |-> amount]]

\* reset_session with a slip: the state is reset and the amount is kept.
reset_session_keeps_amount(table, user) ==
  set_session(table, user, "idle", table[user].amount)

reset_session(table, user) == set_session(table, user, "idle", NoneOpt)

CategoryIds == 1..8

\* SUM(amount) over rows; COALESCE(..., 0.0) gives 0 when there is none.
RECURSIVE SumAmounts(_)
SumAmounts(rows) ==
  IF rows = <<>> THEN 0 ELSE Head(rows).amount + SumAmounts(Tail(rows))

SumWhere(rows, Keep(_)) == SumAmounts(SelectSeq(rows, Keep))

\* get_income_total_in_range with a slip: the incomes of every user.
get_income_total_of_everyone(deps, user, start_epoch, end_epoch) ==
  LET Keep(r) == r.ts_epoch >= start_epoch /\ r.ts_epoch < end_epoch
  IN  SumWhere(deps, Keep)

get_income_total_in_range(deps, user, start_epoch, end_epoch) ==
  LET Keep(r) == r.user = user /\ r.ts_epoch >= start_epoch /\ r.ts_epoch < end_epoch
  IN  SumWhere(deps, Keep)

\* get_total_for_category_in_range with a slip: the end of the window is
\* counted in.
get_total_for_category_through_end(exps, user, category_id, start_epoch, end_epoch) ==
  LET Keep(r) == /\ r.user = user
                 /\ r.category_id = category_id
                 /\ r.ts_epoch >= start_epoch
                 /\ r.ts_epoch <= end_epoch
  IN  SumWhere(exps, Keep)

get_total_for_category_in_range(exps, user, category_id, start_epoch, end_epoch) ==
  LET Keep(r) == /\ r.user = user
                 /\ r.category_id = category_id
                 /\ r.ts_epoch >= start_epoch
                 /\ r.ts_epoch < end_epoch
  IN  SumWhere(exps, Keep)

get_totals_all_categories_in_range(exps, user, start_epoch, end_epoch) ==
  [cat_id \in CategoryIds |->
     get_total_for_category_in_range(exps, user, cat_id, start_epoch, end_epoch)]

\* sum(d.values()) of a dict of totals.
RECURSIVE SumValues(_, _)
SumValues(d, keys) ==
  IF keys = {} THEN 0
  ELSE LET k == CHOOSE x \in keys : TRUE
       IN  d[k] + SumValues(d, keys \ {k})

\* totals_dict.get(cat_id, 0.0)
GetOr0(d, k) == IF k \in DOMAIN d THEN d[k] ELSE 0

\* format_totals_table with a slip: the last category is left out of the
\* grand total.
format_totals_table_short(totals_dict) ==
  LET rows == [cat_id \in CategoryIds |-> GetOr0(totals_dict, cat_id)]
  IN  [rows |-> rows, grand_total |-> SumValues(rows, CategoryIds \ {8})]

\* format_totals_table: the rows in catalog order and the grand total.
format_totals_table(totals_dict) ==
  LET rows == [cat_id \in CategoryIds |-> GetOr0(totals_dict, cat_id)]
  IN  [rows |-> rows, grand_total |-> SumValues(rows, CategoryIds)]

(***************************************************************************)
(* The arguments of resumen and saldo, and the window they select.         *)
(***************************************************************************)

\* The arguments of resumen with a slip: a single word is tried as a catalog
\* key before it is tried as a day token, so that "7" names a category.
ResumenArgsKeyFirst(parts) ==
  LET p1 == parts[1]
      p2 == parts[2]
      r(c, d, m) == [category |-> c, days |-> d, use_month |-> m]
  IN  IF Len(parts) = 0 THEN r(NoneOpt, NoneOpt, TRUE)
      ELSE IF Len(parts) = 1
      THEN IF p1 = W_mes THEN r(NoneOpt, NoneOpt, TRUE)
           ELSE IF p1 \in CategoryKeys THEN r(Some(p1), NoneOpt, TRUE)
           ELSE IF p1 \in DayTokens THEN r(NoneOpt, Some(IntOf(p1)), FALSE)
           ELSE r(NoneOpt, NoneOpt, TRUE)
      ELSE IF p1 \in CategoryKeys
           THEN IF p2 = W_mes THEN r(Some(p1), NoneOpt, TRUE)
                ELSE IF p2 \in DayTokens THEN r(Some(p1), Some(IntOf(p2)), FALSE)
                ELSE r(Some(p1), NoneOpt, TRUE)
           ELSE IF p1 \in DayTokens THEN r(NoneOpt, Some(IntOf(p1)), FALSE)
           ELSE IF p1 = W_mes THEN r(NoneOpt, NoneOpt, TRUE)
           ELSE r(NoneOpt, NoneOpt, TRUE)

\* webhook, the resumen branch: (category, days, use_month) from the words
\* after the command word.
ResumenArgs(parts) ==
  LET p1 == parts[1]
      p2 == parts[2]
      r(c, d, m) == [category |-> c, days |-> d, use_month |-> m]
  IN  IF Len(parts) = 0 THEN r(NoneOpt, NoneOpt, TRUE)
      ELSE IF Len(parts) = 1
      THEN IF p1 = W_mes THEN r(NoneOpt, NoneOpt, TRUE)
           ELSE IF p1 \in DayTokens THEN r(NoneOpt, Some(IntOf(p1)), FALSE)
           ELSE IF p1 \in CategoryKeys THEN r(Some(p1), NoneOpt, TRUE)
           ELSE r(NoneOpt, NoneOpt, TRUE)
      ELSE IF p1 \in CategoryKeys
           THEN IF p2 = W_mes THEN r(Some(p1), NoneOpt, TRUE)
                ELSE IF p2 \in DayTokens THEN r(Some(p1), Some(IntOf(p2)), FALSE)
                ELSE r(Some(p1), NoneOpt, TRUE)
           ELSE IF p1 \in DayTokens THEN r(NoneOpt, Some(IntOf(p1)), FALSE)
           ELSE IF p1 = W_mes THEN r(NoneOpt, NoneOpt, TRUE)
           ELSE r(NoneOpt, NoneOpt, TRUE)

\* webhook, the saldo branch: (days, use_month) from the words after the
\* command word.
SaldoArgs(parts) ==
  IF Len(parts) = 0 THEN [days |-> NoneOpt, use_month |-> TRUE]
  ELSE IF parts[1] = W_mes THEN [days |-> NoneOpt, use_month |-> TRUE]
  ELSE IF parts[1] \in DayTokens
       THEN [days |-> Some(IntOf(parts[1])), use_month |-> FALSE]
       ELSE [days |-> NoneOpt, use_month |-> TRUE]

\* "if use_month: ... elif days: ... else: ..."
SelectWindow(t, use_month, days) ==
  IF use_month THEN month_bounds_epoch_ny(t)
  ELSE IF days # NoneOpt /\ days[1] # 0
       THEN last_n_days_bounds_epoch_ny(t, days[1])
       ELSE month_bounds_epoch_ny(t)

(***************************************************************************)
(* The remote mirror (Apps Script) as the handler sees it.                 *)
(***************************************************************************)

\* What a summary query can bring back: "fail" is every way to get None
\* (not configured, exception, status >= 300, ok false), "ok" a totals
\* dict, "wrongtype" a payload the caller cannot use as a dict of numbers.
MirrorTotals ==
  { <<>>,
    (6 :> 999),
    (1 :> 50000) @@ (6 :> 1250) }

SummaryReplies(conf) ==
  {[status |-> "fail", totals |-> <<>>]}
    \cup (IF conf
          THEN {[status |-> "ok", totals |-> t] : t \in MirrorTotals}
                 \cup {[status |-> "wrongtype", totals |-> <<>>]}
          ELSE {})

BalanceReplies(conf) ==
  {[status |-> "fail", expenses_total |-> 0, incomes_total |-> 0]}
    \cup (IF conf
          THEN {[status |-> "ok", expenses_total |-> 4000, incomes_total |-> 30000],
                [status |-> "wrongtype", expenses_total |-> 0, incomes_total |-> 0]}
          ELSE {})

\* fetch_totals_from_sheets with a slip: a failed query is handed on like
\* an answer.
fetch_totals_never_none(reply) == Some(reply)

\* fetch_totals_from_sheets: None (NoneOpt) or the totals.
fetch_totals_from_sheets(reply) ==
  IF reply.status = "fail" THEN NoneOpt ELSE Some(reply)

\* fetch_balance_from_sheets: None (NoneOpt) or the data.
fetch_balance_from_sheets(reply) ==
  IF reply.status = "fail" THEN NoneOpt ELSE Some(reply)

\* "if totals:" is false for None and for an empty dict.
Truthy(totals) == totals # NoneOpt /\ ~(totals[1].status = "ok" /\ totals[1].totals = <<>>)

(***************************************************************************)
(* The texts the handler sends, by what they report.                       *)
(***************************************************************************)

ResetHelpMsg == [kind |-> "reset_help"]

EstadoMsg(sess) == [kind |-> "estado", state |-> sess.state, amount |-> sess.amount]

\* handle_resumen: the all-rows summary, or one of its warning texts.  The
\* query names no user and no window but [0, 9999999999).
handle_resumen(conf, reply) ==
  IF ~conf THEN [kind |-> "resumen_warning", text |-> "Falta GOOGLE_APPS_SCRIPT_URL"]
  ELSE IF reply.status = "fail"
  THEN [kind |-> "resumen_warning", text |-> "No pude generar el resumen"]
  ELSE IF reply.status = "wrongtype"
  THEN [kind |-> "resumen_warning", text |-> "No pude generar el resumen"]
  ELSE [kind |-> "resumen_general", totals |-> reply.totals,
        grand_total |-> SumValues(reply.totals, DOMAIN reply.totals)]

ResumenCatMsg(category, label, total) ==
  [kind |-> "resumen_cat", category |-> category,
   cat_name |-> CATEGORIES(category), label |-> label, total |-> total]

ResumenTableMsg(label, table) ==
  [kind |-> "resumen_table", label |-> label, rows |-> table.rows,
   grand_total |-> table.grand_total]

SaldoMsg(label, inc_total, exp_total) ==
  [kind |-> "saldo", label |-> label, inc_total |-> inc_total,
   exp_total |-> exp_total, balance |-> inc_total - exp_total]

\* The texts of the flow: the prompts, the confirmations and the help.
AskForAmountMsg == [kind |-> "ask_for_amount"]
AskForIncomeAmountMsg == [kind |-> "ask_for_income_amount"]
InvalidAmountMsg == [kind |-> "invalid_amount"]
InvalidIncomeAmountMsg == [kind |-> "invalid_income_amount"]
InvalidCategoryMsg == [kind |-> "invalid_category"]
InvalidSourceMsg == [kind |-> "invalid_source"]
HelpMsg == [kind |-> "help"]

\* The category choices: the interactive list of send_whatsapp_category_list
\* and the plain-text menu sent when the list could not be sent.
CategoryListMsg == [kind |-> "category_list"]
CategoryMenuMsg == [kind |-> "category_menu"]

(***************************************************************************)
(* The state.                                                              *)
(***************************************************************************)

\* The requests that may be in progress at once (threads of the server).
Procs == {"h1", "h2"}

\* The most entries one delivery holds.
MaxBatch == 2

VARIABLES
  sessions,    \* table sessions: user -> row
  expenses,    \* table expenses, in insertion order
  deposits,    \* table deposits, in insertion order
  now,         \* the clock, epoch seconds
  configured,  \* GOOGLE_APPS_SCRIPT_URL is set
  pc,          \* per request: where webhook() is
  left,        \* per request: entries of the delivery not yet taken
  cur,         \* per request: (user, text, reply_id) of the entry
  state,       \* per request: the local "state" (line 572)
  locals,      \* per request: the locals use_month and days, once bound
  msg,         \* per request: the text about to be sent
  out,         \* per request: the texts sent for the entry
  pre,         \* per request: the stores as they were when the entry was taken
  resp,        \* per request: the last HTTP status returned
  hist,        \* per user: what the events handled so far were (history)
  fetched,     \* per request: the reply of the mirror and the window asked for
  skipped,     \* per request: entries of the delivery skipped so far
  arg,         \* the arguments of a function called on its own
  ret          \* what that call returned

vars ==
  <<sessions, expenses, deposits, now, configured, pc, left, cur, state,
    locals, msg, out, pre, resp, hist, fetched, skipped, arg, ret>>

\* The session of a user as the table holds it; a user without a row is in
\* idle with no amount.
SessionOf(u) ==
  IF sessions[u].present
  THEN [state |-> sessions[u].state, amount |-> sessions[u].amount]
  ELSE [state |-> "idle", amount |-> NoneOpt]

Unbound == [bound |-> FALSE, use_month |-> FALSE, days |-> NoneOpt]
NoEntry == [user |-> NoUser, text |-> <<>>, reply_id |-> NoneOpt]
NoMsg == [kind |-> "none"]
NoArg == [fn |-> "none"]
NoRet == [done |-> FALSE]
NoFetch ==
  [reply |-> [status |-> "none"],
   w |-> [start_epoch |-> 0, end_epoch |-> 0, label |-> <<>>]]
NoPre ==
  [sess |-> [state |-> "idle", amount |-> NoneOpt], expenses |-> <<>>,
   deposits |-> <<>>]

\* (text or "").strip().lower()
Lowered(p) == Lower(Strip(cur[p].text))

(***************************************************************************)
(* What an inbound text is, and the history of the events of a user.       *)
(***************************************************************************)

\* One of the commands the handler tests for before anything else.
IsCommand(lowered) ==
  \/ lowered \in RESET_WORDS
  \/ lowered = W_estado
  \/ StartsWith(lowered, W_resumen)
  \/ StartsWith(lowered, W_saldo)

IsTrigger(lowered) == lowered \in TRIGGERS \cup INCOME_TRIGGERS

\* webhook, awaiting_category: the category the event selects, by the id of
\* the list reply or by the typed number; NoneOpt when it selects none.
Chosen(reply_id, lowered) ==
  IF reply_id # NoneOpt /\ reply_id[1] # <<>> /\ reply_id[1] \in CategoryKeys
  THEN reply_id
  ELSE IF lowered \in CategoryKeys THEN Some(lowered) ELSE NoneOpt

\* "amount is None or amount <= 0" is false.
ValidAmount(text) ==
  normalize_amount(text) # NoneOpt /\ normalize_amount(text)[1] > 0

\* A text that answers the question for an amount with an amount.
IsAmountAnswer(text) ==
  ~IsCommand(Lower(text)) /\ ~IsTrigger(Lower(text)) /\ ValidAmount(text)

\* The history kept per user: whether the last events handled for the user
\* were a flow-start trigger received in idle ("trigger"), that and then an
\* amount ("amount"), or a resumen received in another state than idle
\* ("resumen", with the session as it was).
NoHist ==
  [kind |-> "none", flow |-> "none", amount |-> NoneOpt,
   sess |-> [state |-> "idle", amount |-> NoneOpt]]

HistAfter(h, before, ev) ==
  IF before.state = "idle" /\ Lower(ev.text) \in TRIGGERS
  THEN [NoHist EXCEPT !.kind = "trigger", !.flow = "expense"]
  ELSE IF before.state = "idle" /\ Lower(ev.text) \in INCOME_TRIGGERS
  THEN [NoHist EXCEPT !.kind = "trigger", !.flow = "income"]
  ELSE IF h.kind = "trigger" /\ IsAmountAnswer(ev.text)
  THEN [NoHist EXCEPT !.kind = "amount", !.flow = h.flow,
                      !.amount = normalize_amount(ev.text)]
  ELSE IF before.state # "idle" /\ StartsWith(Lower(ev.text), W_resumen)
  THEN [NoHist EXCEPT !.kind = "resumen", !.sess = before]
  ELSE NoHist

(***************************************************************************)
(* The initial states.  The tables are files that outlive the process      *)
(* (init_db creates them only when missing), so the handler may start on   *)
(* any session rows and ledger rows an earlier run has written.            *)
(***************************************************************************)

\* The amounts a session row may hold, in cents.
PendingAmounts == {1250, 20000}

\* The rows the calls of set_session and get_session write.
PersistedRows ==
  {NoRow}
    \cup {[present |-> TRUE, state |-> st, amount |-> NoneOpt] :
            st \in {"idle", "awaiting_amount", "awaiting_income_amount"}}
    \cup {[present |-> TRUE, state |-> st, amount |-> Some(a)] :
            st \in {"awaiting_category", "awaiting_income_source"},
            a \in PendingAmounts}

\* The clock: 2026-11-05 00:00 and 2026-12-31 00:00 in New York.
Instants == {1793854800, 1798693200}

SomeExpenses ==
  << [user |-> "u1", amount |-> 1250, category_id |-> 6,
      category_name |-> "Restaurante", ts_epoch |-> 1793600000],
     [user |-> "u1", amount |-> 3000, category_id |-> 1,
      category_name |-> "Renta", ts_epoch |-> 1793505600],
     [user |-> "u2", amount |-> 999, category_id |-> 6,
      category_name |-> "Restaurante", ts_epoch |-> 1793600000],
     [user |-> "u1", amount |-> 700, category_id |-> 6,
      category_name |-> "Restaurante", ts_epoch |-> 1796101200] >>

SomeDeposits ==
  << [user |-> "u1", amount |-> 20000, source |-> "Salario",
      ts_epoch |-> 1793700000] >>

\* The rows of the second user.
OtherRows ==
  {NoRow, [present |-> TRUE, state |-> "awaiting_category", amount |-> Some(1250)]}

Init ==
  /\ sessions \in {t \in [Users -> PersistedRows] : t["u2"] \in OtherRows}
  /\ expenses = SomeExpenses
  /\ deposits = SomeDeposits
  /\ now \in Instants
  /\ configured \in BOOLEAN
  /\ pc = [p \in Procs |-> "idle"]
  /\ left = [p \in Procs |-> 0]
  /\ cur = [p \in Procs |-> NoEntry]
  /\ state = [p \in Procs |-> "idle"]
  /\ locals = [p \in Procs |-> Unbound]
  /\ msg = [p \in Procs |-> NoMsg]
  /\ out = [p \in Procs |-> <<>>]
  /\ pre = [p \in Procs |-> NoPre]
  /\ resp = [p \in Procs |-> 0]
  /\ hist = [u \in Users |-> NoHist]
  /\ fetched = [p \in Procs |-> NoFetch]
  /\ skipped = [p \in Procs |-> 0]
  /\ arg = NoArg
  /\ ret = NoRet

(***************************************************************************)
(* webhook(): one action per step of the handler.                          *)
(***************************************************************************)

stores == <<sessions, expenses, deposits, now, configured>>

\* A delivery arrives: webhook() starts with its locals unbound.
Receive(p, most) ==
  /\ pc[p] = "idle"
  /\ \E n \in 0..most : left' = [left EXCEPT ![p] = n]
  /\ pc' = [pc EXCEPT ![p] = "loop"]
  /\ locals' = [locals EXCEPT ![p] = Unbound]
  /\ resp' = [resp EXCEPT ![p] = 0]
  /\ skipped' = [skipped EXCEPT ![p] = 0]
  /\ UNCHANGED <<stores, cur, state, msg, out, pre, hist, fetched, arg, ret>>

\* "if not user: continue"
SkipEntry(p, E) ==
  /\ pc[p] = "loop" /\ left[p] > 0
  /\ \E e \in E : parse_sender_and_message(e).user = NoUser
  /\ left' = [left EXCEPT ![p] = left[p] - 1]
  /\ skipped' = [skipped EXCEPT ![p] = skipped[p] + 1]
  /\ UNCHANGED <<stores, pc, cur, state, locals, msg, out, pre, resp, hist, fetched, arg, ret>>

\* The next entry of the delivery has a sender.
TakeEntry(p, E) ==
  /\ pc[p] = "loop" /\ left[p] > 0
  /\ \E e \in E :
       LET r == parse_sender_and_message(e)
       IN  /\ r.user # NoUser
           /\ cur' = [cur EXCEPT ![p] = r]
           /\ pre' = [pre EXCEPT ![p] =
                        [sess |-> SessionOf(r.user), expenses |-> expenses,
                         deposits |-> deposits]]
  /\ pc' = [pc EXCEPT ![p] = "get_session"]
  /\ out' = [out EXCEPT ![p] = <<>>]
  /\ UNCHANGED <<stores, left, state, locals, msg, resp, hist, fetched, skipped, arg, ret>>

\* The loop is over: return jsonify(status="ok"), 200.
Return(p) ==
  /\ pc[p] = "loop" /\ left[p] = 0
  /\ pc' = [pc EXCEPT ![p] = "idle"]
  /\ resp' = [resp EXCEPT ![p] = 200]
  /\ UNCHANGED <<stores, left, cur, state, locals, msg, out, pre, hist, fetched, skipped, arg, ret>>

\* sess = get_session(user); state = sess["state"]
GetSession(p) ==
  /\ pc[p] = "get_session"
  /\ LET g == get_session(sessions, cur[p].user)
     IN  /\ sessions' = g.table
         /\ state' = [state EXCEPT ![p] = g.sess.state]
  /\ pc' = [pc EXCEPT ![p] = "route"]
  /\ UNCHANGED <<expenses, deposits, now, configured, left, cur, locals, msg, out,
                 pre, resp, hist, fetched, skipped, arg, ret>>

IsReset(p) == Lowered(p) \in RESET_WORDS
IsEstado(p) == Lowered(p) = W_estado
IsResumen(p) == StartsWith(Lowered(p), W_resumen)
IsSaldo(p) == StartsWith(Lowered(p), W_saldo)

\* RESET: reset_session(user), then the help text.
Reset(p) ==
  /\ pc[p] = "route" /\ IsReset(p)
  /\ sessions' = reset_session(sessions, cur[p].user)
  /\ msg' = [msg EXCEPT ![p] = ResetHelpMsg]
  /\ pc' = [pc EXCEPT ![p] = "send"]
  /\ UNCHANGED <<expenses, deposits, now, configured, left, cur, state, locals,
                 out, pre, resp, hist, fetched, skipped, arg, ret>>

\* ESTADO: the session is read again and reported.
Estado(p) ==
  /\ pc[p] = "route" /\ ~IsReset(p) /\ IsEstado(p)
  /\ LET g == get_session(sessions, cur[p].user)
     IN  /\ sessions' = g.table
         /\ msg' = [msg EXCEPT ![p] = EstadoMsg(g.sess)]
  /\ pc' = [pc EXCEPT ![p] = "send"]
  /\ UNCHANGED <<expenses, deposits, now, configured, left, cur, state, locals,
                 out, pre, resp, hist, fetched, skipped, arg, ret>>

\* The window of handle_resumen: start_e=0, end_e=9999999999.  The end is
\* written here as the largest instant a 32-bit integer holds, which is past
\* every instant of the ledger.
AllTime == [start_epoch |-> 0, end_epoch |-> 2147483647, label |-> <<>>]

\* RESUMEN alone: handle_resumen().
ResumenAll(p) ==
  /\ pc[p] = "route" /\ ~IsReset(p) /\ ~IsEstado(p) /\ IsResumen(p)
  /\ Len(Split(Lowered(p))) = 1
  /\ \E reply \in SummaryReplies(configured) :
       /\ msg' = [msg EXCEPT ![p] = handle_resumen(configured, reply)]
       /\ fetched' = [fetched EXCEPT ![p] = [reply |-> reply, w |-> AllTime]]
  /\ pc' = [pc EXCEPT ![p] = "send"]
  /\ UNCHANGED <<stores, left, cur, state, locals, out, pre, resp, hist, skipped, arg, ret>>

\* The text of a windowed resumen, or "raise" where the handler raises on
\* the payload of the mirror.
ResumenReportIn(user, args, reply, w, totals) ==
      IF Truthy(totals) /\ reply.status = "wrongtype" THEN [kind |-> "raise"]
      ELSE IF args.category # NoneOpt
      THEN LET cat == IntOf(args.category[1])
               total ==
                 IF Truthy(totals) THEN GetOr0(reply.totals, cat)
                 ELSE get_total_for_category_in_range(
                        expenses, user, cat, w.start_epoch, w.end_epoch)
           IN  ResumenCatMsg(args.category[1], w.label, total)
      ELSE LET table ==
                 IF Truthy(totals) THEN format_totals_table(reply.totals)
                 ELSE format_totals_table(
                        get_totals_all_categories_in_range(
                          expenses, user, w.start_epoch, w.end_epoch))
           IN  ResumenTableMsg(w.label, table)

ResumenReport(user, args, reply) ==
  ResumenReportIn(user, args, reply,
                  SelectWindow(now, args.use_month, args.days),
                  fetch_totals_from_sheets(reply))

\* RESUMEN with arguments: binds category, days and use_month, asks the
\* mirror, falls back to the local tables.
ResumenWindow(p) ==
  /\ pc[p] = "route" /\ ~IsReset(p) /\ ~IsEstado(p) /\ IsResumen(p)
  /\ Len(Split(Lowered(p))) > 1
  /\ LET args == ResumenArgs(Tail(Split(Lowered(p))))
     IN  /\ locals' = [locals EXCEPT ![p] =
                         [bound |-> TRUE, use_month |-> args.use_month,
                          days |-> args.days]]
         /\ \E reply \in SummaryReplies(configured) :
              /\ fetched' = [fetched EXCEPT ![p] =
                               [reply |-> reply,
                                w |-> SelectWindow(now, args.use_month, args.days)]]
              /\ LET m == ResumenReport(cur[p].user, args, reply)
                 IN  IF m.kind = "raise"
                     THEN /\ pc' = [pc EXCEPT ![p] = "raised"]
                          /\ msg' = msg
                     ELSE /\ pc' = [pc EXCEPT ![p] = "send"]
                          /\ msg' = [msg EXCEPT ![p] = m]
  /\ UNCHANGED <<stores, left, cur, state, out, pre, resp, hist, skipped, arg, ret>>

\* SALDO: the body of "if lowered.startswith('saldo')" binds days and
\* use_month.
SaldoBranch(p) ==
  /\ pc[p] = "route" /\ ~IsReset(p) /\ ~IsEstado(p) /\ ~IsResumen(p)
  /\ IsSaldo(p)
  /\ LET a == SaldoArgs(Tail(Split(Lowered(p))))
     IN  locals' = [locals EXCEPT ![p] =
                      [bound |-> TRUE, use_month |-> a.use_month, days |-> a.days]]
  /\ pc' = [pc EXCEPT ![p] = "window"]
  /\ UNCHANGED <<stores, left, cur, state, msg, out, pre, resp, hist, fetched, skipped, arg, ret>>

\* Any other text: the "if" at line 696 is false and control reaches line
\* 710, which stands at the level of the loop.
NotSaldo(p) ==
  /\ pc[p] = "route" /\ ~IsReset(p) /\ ~IsEstado(p) /\ ~IsResumen(p)
  /\ ~IsSaldo(p)
  /\ pc' = [pc EXCEPT ![p] = "window"]
  /\ UNCHANGED <<stores, left, cur, state, locals, msg, out, pre, resp, hist, fetched, skipped, arg, ret>>

\* Line 710 reads use_month before this call of webhook() has bound it:
\* UnboundLocalError.
UnboundUseMonth(p) ==
  /\ pc[p] = "window" /\ ~locals[p].bound
  /\ pc' = [pc EXCEPT ![p] = "raised"]
  /\ UNCHANGED <<stores, left, cur, state, locals, msg, out, pre, resp, hist, fetched, skipped, arg, ret>>

\* The text of the balance, or "raise" where float() raises on the payload.
BalanceReportIn(user, reply, w, data) ==
      IF data # NoneOpt
      THEN IF reply.status = "wrongtype" THEN [kind |-> "raise"]
           ELSE SaldoMsg(w.label, reply.incomes_total, reply.expenses_total)
      ELSE LET exp_by_cat == get_totals_all_categories_in_range(
                               expenses, user, w.start_epoch, w.end_epoch)
               exp_total == SumValues(exp_by_cat, CategoryIds)
               inc_total == get_income_total_in_range(
                              deposits, user, w.start_epoch, w.end_epoch)
           IN  SaldoMsg(w.label, inc_total, exp_total)

BalanceReport(user, use_month, days, reply) ==
  BalanceReportIn(user, reply, SelectWindow(now, use_month, days),
                  fetch_balance_from_sheets(reply))

\* Lines 710-735: the window from use_month and days as they are bound, the
\* balance from the mirror or from the local tables.
Balance(p) ==
  /\ pc[p] = "window" /\ locals[p].bound
  /\ \E reply \in BalanceReplies(configured) :
       /\ fetched' = [fetched EXCEPT ![p] =
                        [reply |-> reply,
                         w |-> SelectWindow(now, locals[p].use_month, locals[p].days)]]
       /\ LET m == BalanceReport(cur[p].user, locals[p].use_month, locals[p].days, reply)
          IN  IF m.kind = "raise"
              THEN /\ pc' = [pc EXCEPT ![p] = "raised"]
                   /\ msg' = msg
              ELSE /\ pc' = [pc EXCEPT ![p] = "send"]
                   /\ msg' = [msg EXCEPT ![p] = m]
  /\ UNCHANGED <<stores, left, cur, state, locals, out, pre, resp, hist, skipped, arg, ret>>

\* send_whatsapp_text returns (whatever the status of the reply).
SendText(p) ==
  /\ pc[p] = "send"
  /\ out' = [out EXCEPT ![p] = Append(out[p], msg[p])]
  /\ msg' = [msg EXCEPT ![p] = NoMsg]
  /\ pc' = [pc EXCEPT ![p] = "end"]
  /\ UNCHANGED <<stores, left, cur, state, locals, pre, resp, hist, fetched, skipped, arg, ret>>

\* requests.post raises (timeout, connection error): nothing catches it.
SendTextRaises(p) ==
  /\ pc[p] = "send"
  /\ out' = [out EXCEPT ![p] = Append(out[p], msg[p])]
  /\ msg' = [msg EXCEPT ![p] = NoMsg]
  /\ pc' = [pc EXCEPT ![p] = "raised"]
  /\ UNCHANGED <<stores, left, cur, state, locals, pre, resp, hist, fetched, skipped, arg, ret>>

\* "continue": on to the next entry.
Continue(p) ==
  /\ pc[p] = "end"
  /\ left' = [left EXCEPT ![p] = left[p] - 1]
  /\ pc' = [pc EXCEPT ![p] = "loop"]
  /\ cur' = [cur EXCEPT ![p] = NoEntry]
  /\ state' = [state EXCEPT ![p] = "idle"]
  /\ out' = [out EXCEPT ![p] = <<>>]
  /\ pre' = [pre EXCEPT ![p] = NoPre]
  /\ hist' = [hist EXCEPT ![cur[p].user] = HistAfter(@, pre[p].sess, cur[p])]
  /\ fetched' = [fetched EXCEPT ![p] = NoFetch]
  /\ UNCHANGED <<stores, locals, msg, resp, skipped, arg, ret>>

\* An exception leaves webhook(): the rest of the delivery is dropped and
\* the server answers 500.
ServerError(p) ==
  /\ pc[p] = "raised"
  /\ resp' = [resp EXCEPT ![p] = 500]
  /\ pc' = [pc EXCEPT ![p] = "idle"]
  /\ left' = [left EXCEPT ![p] = 0]
  /\ cur' = [cur EXCEPT ![p] = NoEntry]
  /\ state' = [state EXCEPT ![p] = "idle"]
  /\ locals' = [locals EXCEPT ![p] = Unbound]
  /\ out' = [out EXCEPT ![p] = <<>>]
  /\ pre' = [pre EXCEPT ![p] = NoPre]
  /\ hist' = [hist EXCEPT ![cur[p].user] = HistAfter(@, pre[p].sess, cur[p])]
  /\ fetched' = [fetched EXCEPT ![p] = NoFetch]
  /\ UNCHANGED <<stores, msg, skipped, arg, ret>>

Step(p, E, most) ==
  \/ Receive(p, most)
  \/ SkipEntry(p, E)
  \/ TakeEntry(p, E)
  \/ Return(p)
  \/ GetSession(p)
  \/ Reset(p)
  \/ Estado(p)
  \/ ResumenAll(p)
  \/ ResumenWindow(p)
  \/ SaldoBranch(p)
  \/ NotSaldo(p)
  \/ UnboundUseMonth(p)
  \/ Balance(p)
  \/ SendText(p)
  \/ SendTextRaises(p)
  \/ Continue(p)
  \/ ServerError(p)

\* One request at a time.
Next == Step("h1", Entries, MaxBatch)

Spec == Init /\ [][Next]_vars

(***************************************************************************)
(* Two requests at once.  app.run() serves each request in a thread of its *)
(* own and webhook() takes no lock, so the steps of two calls interleave.  *)
(***************************************************************************)

\* The most entries of a delivery when two are handled at once.
MaxBatchConc == 1

\* The entries of the concurrent deliveries: all of one user.
EntriesConc ==
  {TextEntry("u1", b) :
     b \in {B_reset, B_estado, B_resumen, B_resumen_mes, B_saldo_7, B_6}}
    \cup {TextEntry(NoUser, B_gasto)}

InitConc ==
  /\ Init
  /\ sessions["u2"] = NoRow
  /\ sessions["u1"] \in
       {NoRow, [present |-> TRUE, state |-> "awaiting_category", amount |-> Some(1250)]}
  /\ now = 1793854800

NextConc == \E p \in Procs : Step(p, EntriesConc, MaxBatchConc)

SpecConc == InitConc /\ [][NextConc]_vars

(***************************************************************************)
(* Two deliveries to compare: one of up to MaxBatchFirst entries, one of   *)
(* up to MaxBatchSecond, of the same user, with the mirror not configured. *)
(***************************************************************************)

MaxBatchFirst == 2
MaxBatchSecond == 1

EntriesBatch ==
  {TextEntry("u1", b) :
     b \in {B_reset, B_estado, B_resumen, B_resumen_mes, B_saldo_7, B_hola}}
    \cup {TextEntry(NoUser, B_gasto)}

InitBatch ==
  /\ Init
  /\ sessions["u2"] = NoRow
  /\ sessions["u1"] = [present |-> TRUE, state |-> "idle", amount |-> NoneOpt]
  /\ now = 1793854800
  /\ configured = FALSE

NextBatch ==
  \/ Step("h1", EntriesBatch, MaxBatchFirst)
  \/ Step("h2", EntriesBatch, MaxBatchSecond)

SpecBatch == InitBatch /\ [][NextBatch]_vars

(***************************************************************************)
(* The report commands with every argument list.  One request at a time,   *)
(* over resumen and saldo followed by up to three words, and over several  *)
(* ledgers.                                                                *)
(***************************************************************************)

\* The most entries of a delivery of report commands.
MaxBatchReport == 1

\* The words after the command word: the catalog keys, the day tokens, mes,
\* a numeral outside the catalog and a word that is none of them.
ArgTokens == CategoryKeys \cup DayTokens \cup {W_mes, <<"9">>, <<"x">>}

Join(a, b) == a \o <<" ">> \o b

ReportBodies ==
  {W_resumen, W_saldo}
    \cup {Join(c, t) : c \in {W_resumen, W_saldo}, t \in ArgTokens}
    \cup {Join(Join(W_resumen, t1), t2) : t1 \in ArgTokens, t2 \in ArgTokens}
    \cup {Join(Join(Join(W_resumen, t1), t2), W_mes) :
            t1 \in {<<"6">>, <<"x">>}, t2 \in {<<"7">>, <<"x">>}}
    \cup {Join(Join(W_saldo, t1), t2) :
            t1 \in {<<"7">>, <<"x">>}, t2 \in {<<"3", "0">>, W_mes}}

EntriesReport ==
  {TextEntry("u1", b) : b \in ReportBodies \cup {B_reset, B_estado, B_hola}}
    \cup {TextEntry("u2", b) : b \in {B_resumen_mes, B_saldo_7}}
    \cup {TextEntry(NoUser, B_saldo)}

\* The expenses tables the reports are computed from: none, the rows of
\* SomeExpenses, and rows of one user in one category.
Ledgers ==
  { <<>>,
    SomeExpenses,
    << [user |-> "u1", amount |-> 1, category_id |-> 8,
        category_name |-> "Traveling", ts_epoch |-> 1793600000],
       [user |-> "u1", amount |-> 2, category_id |-> 8,
        category_name |-> "Traveling", ts_epoch |-> 1793600000] >> }

InitReport ==
  /\ sessions \in
       {t \in [Users -> PersistedRows] :
          /\ t["u2"] = NoRow
          /\ t["u1"] = [present |-> TRUE, state |-> "awaiting_category",
                        amount |-> Some(1250)]}
  /\ expenses \in Ledgers
  /\ deposits = SomeDeposits
  /\ now \in Instants
  /\ configured \in BOOLEAN
  /\ pc = [p \in Procs |-> "idle"]
  /\ left = [p \in Procs |-> 0]
  /\ cur = [p \in Procs |-> NoEntry]
  /\ state = [p \in Procs |-> "idle"]
  /\ locals = [p \in Procs |-> Unbound]
  /\ msg = [p \in Procs |-> NoMsg]
  /\ out = [p \in Procs |-> <<>>]
  /\ pre = [p \in Procs |-> NoPre]
  /\ resp = [p \in Procs |-> 0]
  /\ hist = [u \in Users |-> NoHist]
  /\ fetched = [p \in Procs |-> NoFetch]
  /\ skipped = [p \in Procs |-> 0]
  /\ arg = NoArg
  /\ ret = NoRet

NextReport == Step("h1", EntriesReport, MaxBatchReport)

SpecReport == InitReport /\ [][NextReport]_vars

(***************************************************************************)
(* The functions of the utilities, each called on its own on arguments     *)
(* drawn from a bounded set.  The handler is at rest meanwhile.            *)
(***************************************************************************)

\* No request in progress.
Quiet ==
  /\ pc = [p \in Procs |-> "idle"]
  /\ left = [p \in Procs |-> 0]
  /\ cur = [p \in Procs |-> NoEntry]
  /\ state = [p \in Procs |-> "idle"]
  /\ locals = [p \in Procs |-> Unbound]
  /\ msg = [p \in Procs |-> NoMsg]
  /\ out = [p \in Procs |-> <<>>]
  /\ pre = [p \in Procs |-> NoPre]
  /\ resp = [p \in Procs |-> 0]
  /\ hist = [u \in Users |-> NoHist]
  /\ fetched = [p \in Procs |-> NoFetch]
  /\ skipped = [p \in Procs |-> 0]

\* No request in progress, empty tables.
AtRest ==
  /\ Quiet
  /\ sessions = [u \in Users |-> NoRow]
  /\ expenses = <<>>
  /\ deposits = <<>>
  /\ now = 1793854800
  /\ configured = FALSE

handler == <<sessions, expenses, deposits, now, configured, pc, left, cur,
             state, locals, msg, out, pre, resp, hist, fetched, skipped>>

\* The longest text handed to normalize_amount, besides the examples.
MaxText == 3

\* The characters of those texts: digits, both separators, a sign and a
\* letter.
AmountChars == {"0", "2", "9", ",", ".", "-", "x"}

RECURSIVE TextsOfLen(_)
TextsOfLen(n) ==
  IF n = 0 THEN {<<>>}
  ELSE {Append(t, c) : t \in TextsOfLen(n - 1), c \in AmountChars}

AmountExamples ==
  { <<"2", "5", ",", "5", "0">>, <<"2", "5", ".", "5", "0">>,
    <<"1", "2", ",", "3", "4", "9">>, <<"1", "2", ".", "3", "4", "9">>,
    <<"$", " ", "1", "2", ",", "7", "5", " ", "u", "s", "d">>,
    <<"-", "3", ",", "1">>, <<"0", ",", "0", "0">>, <<"h", "o", "l", "a">> }

AmountTexts == AmountExamples \cup UNION {TextsOfLen(n) : n \in 0..MaxText}

InitAmount ==
  /\ AtRest
  /\ arg \in {[fn |-> "normalize_amount", text |-> t] : t \in AmountTexts}
  /\ ret = NoRet

\* amount = normalize_amount(text)
CallNormalizeAmount ==
  /\ arg.fn = "normalize_amount" /\ ~ret.done
  /\ ret' = [done |-> TRUE, value |-> normalize_amount(arg.text)]
  /\ UNCHANGED <<handler, arg>>

NextAmount == CallNormalizeAmount

SpecAmount == InitAmount /\ [][NextAmount]_vars

\* The clock of the calls of month_bounds_epoch_ny: every hour, and the
\* second before it, of two stretches.  The first runs from 2026-10-31
\* 00:00 UTC over the end of daylight time (1 November), the turn of
\* November, of December and of the year; the second from 2028-02-28
\* 00:00 UTC over the 29th of February and the start of daylight time
\* (12 March).
MaxHours == 1680
MaxHoursLeap == 408

MonthInstants ==
  UNION {{1793404800 + k * HOUR, 1793404800 + k * HOUR - 1} : k \in 0..MaxHours}
    \cup
  UNION {{1835308800 + k * HOUR, 1835308800 + k * HOUR - 1} : k \in 0..MaxHoursLeap}

InitMonth ==
  /\ Quiet
  /\ sessions = [u \in Users |-> NoRow]
  /\ expenses = <<>>
  /\ deposits = <<>>
  /\ configured = FALSE
  /\ now \in MonthInstants
  /\ arg = [fn |-> "month_bounds_epoch_ny"]
  /\ ret = NoRet

\* start_e, end_e, label = month_bounds_epoch_ny()
CallMonthBounds ==
  /\ arg.fn = "month_bounds_epoch_ny" /\ ~ret.done
  /\ ret' = [done |-> TRUE, value |-> month_bounds_epoch_ny(now)]
  /\ UNCHANGED <<handler, arg>>

NextMonth == CallMonthBounds

SpecMonth == InitMonth /\ [][NextMonth]_vars

\* The tables of the calls of the two total queries: up to MaxRows rows of
\* either user, of two categories, with ts_epoch one second before the
\* window, at its start, one second before its end and at its end.
MaxRows == 2

\* November 2026 in New York.
TotalsWindow == [start_epoch |-> 1793505600, end_epoch |-> 1796101200]

RowInstants ==
  {TotalsWindow.start_epoch - 1, TotalsWindow.start_epoch,
   TotalsWindow.end_epoch - 1, TotalsWindow.end_epoch}

ExpenseRows ==
  {[user |-> u, amount |-> a, category_id |-> c,
    category_name |-> IF c = 6 THEN "Restaurante" ELSE "Renta", ts_epoch |-> t] :
     u \in Users, a \in {100, 250}, c \in {1, 6}, t \in RowInstants}

DepositRows ==
  {[user |-> u, amount |-> a, source |-> "Salario", ts_epoch |-> t] :
     u \in Users, a \in {100, 250}, t \in RowInstants}

TablesOf(R) == UNION {[1..n -> R] : n \in 0..MaxRows}

InitTotals ==
  /\ Quiet
  /\ sessions = [u \in Users |-> NoRow]
  /\ now = 1793854800
  /\ configured = FALSE
  /\ \/ /\ expenses \in TablesOf(ExpenseRows)
        /\ deposits = <<>>
        /\ arg \in {[fn |-> "get_total_for_category_in_range", user |-> u,
                     category_id |-> c,
                     start_epoch |-> TotalsWindow.start_epoch,
                     end_epoch |-> TotalsWindow.end_epoch] :
                      u \in Users, c \in {1, 6}}
     \/ /\ expenses = <<>>
        /\ deposits \in TablesOf(DepositRows)
        /\ arg \in {[fn |-> "get_income_total_in_range", user |-> u,
                     category_id |-> 0,
                     start_epoch |-> TotalsWindow.start_epoch,
                     end_epoch |-> TotalsWindow.end_epoch] : u \in Users}
  /\ ret = NoRet

\* get_total_for_category_in_range(user, category_id, start_epoch, end_epoch)
CallCategoryTotal ==
  /\ arg.fn = "get_total_for_category_in_range" /\ ~ret.done
  /\ ret' = [done |-> TRUE,
             value |-> get_total_for_category_in_range(
                         expenses, arg.user, arg.category_id,
                         arg.start_epoch, arg.end_epoch)]
  /\ UNCHANGED <<handler, arg>>

\* get_income_total_in_range(user, start_epoch, end_epoch)
CallIncomeTotal ==
  /\ arg.fn = "get_income_total_in_range" /\ ~ret.done
  /\ ret' = [done |-> TRUE,
             value |-> get_income_total_in_range(
                         deposits, arg.user, arg.start_epoch, arg.end_epoch)]
  /\ UNCHANGED <<handler, arg>>

NextTotals == CallCategoryTotal \/ CallIncomeTotal

SpecTotals == InitTotals /\ [][NextTotals]_vars

(***************************************************************************)
(* Properties.  They are read where the handler has finished an entry:     *)
(* pc = "end" (it reached its "continue") or pc = "raised" (an exception   *)
(* left it).  pre holds the session of the sender and the ledger as they   *)
(* were when the entry was taken, out the texts sent for it.               *)
(***************************************************************************)

Handled(p) == pc[p] \in {"end", "raised"}

IdleSession == [state |-> "idle", amount |-> NoneOpt]

\* The session of the sender of the entry, as it is now.
After(p) == SessionOf(cur[p].user)

NoNewRecords(p) == expenses = pre[p].expenses /\ deposits = pre[p].deposits

\* The ledger holds exactly one expense more than before, with these values.
OneNewExpense(p, amount, key) ==
  /\ deposits = pre[p].deposits
  /\ Len(expenses) = Len(pre[p].expenses) + 1
  /\ SubSeq(expenses, 1, Len(pre[p].expenses)) = pre[p].expenses
  /\ LET r == expenses[Len(expenses)]
     IN  /\ r.user = cur[p].user
         /\ r.amount = amount
         /\ r.category_id = IntOf(key)
         /\ r.category_name = CATEGORIES(key)

\* The ledger holds exactly one deposit more than before, with these values.
OneNewDeposit(p, amount, source) ==
  /\ expenses = pre[p].expenses
  /\ Len(deposits) = Len(pre[p].deposits) + 1
  /\ SubSeq(deposits, 1, Len(pre[p].deposits)) = pre[p].deposits
  /\ LET r == deposits[Len(deposits)]
     IN  /\ r.user = cur[p].user
         /\ r.amount = amount
         /\ r.source = source

\* The transition rule of a state other than idle (the table of section
\* 4.1), for the entry p has handled: the valid answer moves on or writes
\* the record, the invalid answer reprompts and changes nothing.
AnswerRule(p) ==
  LET st == pre[p].sess.state
      text == cur[p].text
      chosen == Chosen(cur[p].reply_id, Lowered(p))
  IN  CASE st = "awaiting_amount" ->
             IF ValidAmount(text)
             THEN /\ After(p) = [state |-> "awaiting_category",
                                 amount |-> normalize_amount(text)]
                  /\ NoNewRecords(p)
             ELSE /\ After(p) = pre[p].sess /\ NoNewRecords(p)
                  /\ out[p] = <<InvalidAmountMsg>>
        [] st = "awaiting_income_amount" ->
             IF ValidAmount(text)
             THEN /\ After(p) = [state |-> "awaiting_income_source",
                                 amount |-> normalize_amount(text)]
                  /\ NoNewRecords(p)
             ELSE /\ After(p) = pre[p].sess /\ NoNewRecords(p)
                  /\ out[p] = <<InvalidIncomeAmountMsg>>
        [] st = "awaiting_category" ->
             IF chosen # NoneOpt
             THEN /\ After(p) = IdleSession
                  /\ OneNewExpense(p, pre[p].sess.amount[1], chosen[1])
             ELSE /\ After(p) = pre[p].sess /\ NoNewRecords(p)
                  /\ out[p] # <<>> /\ out[p][1] = InvalidCategoryMsg
        [] st = "awaiting_income_source" ->
             IF Len(Strip(text)) >= 2
             THEN /\ After(p) = IdleSession
                  /\ OneNewDeposit(p, pre[p].sess.amount[1], Strip(text))
             ELSE /\ After(p) = pre[p].sess /\ NoNewRecords(p)
                  /\ out[p] = <<InvalidSourceMsg>>
        [] OTHER -> TRUE

\* The answer is not a valid one for the state the session was in.
InvalidAnswer(p) ==
  LET st == pre[p].sess.state
  IN  \/ st \in {"awaiting_amount", "awaiting_income_amount"}
           /\ ~ValidAmount(cur[p].text)
      \/ st = "awaiting_category"
           /\ Chosen(cur[p].reply_id, Lowered(p)) = NoneOpt
      \/ st = "awaiting_income_source" /\ Len(Strip(cur[p].text)) < 2

\* C1: in every session state a reset word (reset, reiniciar, cancel,
\* cancelar, after trimming and lowercasing) leaves the session of the
\* sender in idle with no pending amount, writes no expense and no income,
\* and the reset help text is the one text sent.
C1_ResetForcesIdle ==
  \A p \in Procs :
    Handled(p) /\ Lowered(p) \in RESET_WORDS =>
      /\ After(p) = IdleSession
      /\ NoNewRecords(p)
      /\ out[p] = <<ResetHelpMsg>>

\* C1, witness: a reset word (" Cancelar ") has been handled while a
\* category was awaited with an amount pending.
C1_ResetInMidFlow ==
  \E p \in Procs :
    /\ pc[p] = "end"
    /\ cur[p].text = Strip(B_Cancelar)
    /\ pre[p].sess = [state |-> "awaiting_category", amount |-> Some(1250)]

\* C2: from idle, whatever the pending amount, an expense trigger phrase
\* leaves the session in awaiting_amount with no pending amount, and the
\* amount prompt is the only text sent.
C2_TriggerStartsExpense ==
  \A p \in Procs :
    Handled(p) /\ pre[p].sess.state = "idle" /\ Lowered(p) \in TRIGGERS =>
      /\ After(p) = [state |-> "awaiting_amount", amount |-> NoneOpt]
      /\ out[p] = <<AskForAmountMsg>>

\* C3: the events (expense trigger in idle, positive amount a, selection of
\* a catalog id c) pass through awaiting_amount, then awaiting_category with
\* a pending, and end with exactly one new expense (a, c, name of c) and the
\* session in idle with no pending amount.
C3_ExpenseFlowWritesOne ==
  \A p \in Procs :
    LET h == hist[cur[p].user]
        chosen == Chosen(cur[p].reply_id, Lowered(p))
    IN  /\ Handled(p) /\ pre[p].sess.state = "idle" /\ Lowered(p) \in TRIGGERS =>
             After(p) = [state |-> "awaiting_amount", amount |-> NoneOpt]
        /\ Handled(p) /\ h.kind = "trigger" /\ h.flow = "expense"
             /\ IsAmountAnswer(cur[p].text) =>
             After(p) = [state |-> "awaiting_category",
                         amount |-> normalize_amount(cur[p].text)]
        /\ Handled(p) /\ h.kind = "amount" /\ h.flow = "expense"
             /\ chosen # NoneOpt =>
             /\ OneNewExpense(p, h.amount[1], chosen[1])
             /\ After(p) = IdleSession

\* C4: an answer that is not valid for the state the session is in (no
\* positive amount where an amount is awaited, no catalog id where a
\* category is awaited, fewer than 2 characters where a source is awaited)
\* changes neither the state nor the pending amount, writes no record, and
\* is answered by the reprompt of that state.
C4_InvalidAnswerReprompts ==
  \A p \in Procs :
    Handled(p) /\ ~IsCommand(Lowered(p)) /\ ~IsTrigger(Lowered(p))
      /\ InvalidAnswer(p) => AnswerRule(p)

\* C5: the balance is computed and sent only for a text that starts with
\* saldo.
C5_BalanceOnlyForSaldo ==
  \A p \in Procs :
    (\/ pc[p] = "window"
     \/ msg[p].kind = "saldo"
     \/ \E i \in 1..Len(out[p]) : out[p][i].kind = "saldo")
      => StartsWith(Lowered(p), W_saldo)

\* Between its read of the session and its end, a handler is inside the
\* sequence read session / decide / write records / write session.
InSequence(p) == pc[p] \in {"route", "window", "send"}

\* C6: two handlers for the same user are never inside their sequences at
\* once, and no more than one expense is written.
C6_HandlersOfAUserExclude ==
  /\ \A p, q \in Procs :
       p # q /\ InSequence(p) /\ InSequence(q) => cur[p].user # cur[q].user
  /\ Len(expenses) <= Len(SomeExpenses) + 1

\* C7: in a state other than idle a trigger phrase is an answer like any
\* other: the rule of the state handles it, and no flow is started.
C7_TriggerInMidFlowIsAnAnswer ==
  \A p \in Procs :
    Handled(p) /\ IsTrigger(Lowered(p)) /\ pre[p].sess.state # "idle" =>
      AnswerRule(p)

\* C8: the events (income trigger in idle, positive amount a, source s of 2
\* characters or more) pass through awaiting_income_amount, then
\* awaiting_income_source with a pending, and end with exactly one new
\* income (a, s), no new expense, and the session in idle with no pending
\* amount.
C8_IncomeFlowWritesOne ==
  \A p \in Procs :
    LET h == hist[cur[p].user]
    IN  /\ Handled(p) /\ pre[p].sess.state = "idle"
             /\ Lowered(p) \in INCOME_TRIGGERS =>
             After(p) = [state |-> "awaiting_income_amount", amount |-> NoneOpt]
        /\ Handled(p) /\ h.kind = "trigger" /\ h.flow = "income"
             /\ IsAmountAnswer(cur[p].text) =>
             After(p) = [state |-> "awaiting_income_source",
                         amount |-> normalize_amount(cur[p].text)]
        /\ Handled(p) /\ h.kind = "amount" /\ h.flow = "income"
             /\ ~IsCommand(Lowered(p)) /\ ~IsTrigger(Lowered(p))
             /\ Len(Strip(cur[p].text)) >= 2 =>
             /\ OneNewDeposit(p, h.amount[1], Strip(cur[p].text))
             /\ After(p) = IdleSession

\* C9: in every session state, estado sends the state and the pending
\* amount of the sender and changes neither the session nor the ledger.
C9_EstadoOnlyReports ==
  \A p \in Procs :
    Handled(p) /\ Lowered(p) = W_estado =>
      /\ After(p) = pre[p].sess
      /\ NoNewRecords(p)
      /\ out[p] = << [kind |-> "estado", state |-> pre[p].sess.state,
                      amount |-> pre[p].sess.amount] >>

\* C9, witness: estado has been handled while the source of an income was
\* awaited with an amount pending.
C9_EstadoInMidFlow ==
  \E p \in Procs :
    /\ pc[p] = "end"
    /\ Lowered(p) = W_estado
    /\ pre[p].sess = [state |-> "awaiting_income_source", amount |-> Some(20000)]

\* C10: in every session state a text that starts with resumen changes
\* neither the session nor the ledger, and the valid answer that follows it
\* completes the step of the flow that was interrupted, with the amount that
\* was pending.
C10_ResumenKeepsTheFlow ==
  \A p \in Procs :
    LET h == hist[cur[p].user]
    IN  /\ Handled(p) /\ StartsWith(Lowered(p), W_resumen) =>
             After(p) = pre[p].sess /\ NoNewRecords(p)
        /\ Handled(p) /\ h.kind = "resumen" /\ pre[p].sess = h.sess
             /\ ~IsCommand(Lowered(p)) /\ ~IsTrigger(Lowered(p))
             /\ ~InvalidAnswer(p) => AnswerRule(p)

(***************************************************************************)
(* The reports.  fetched holds the reply of the mirror to the handler and  *)
(* the window it asked for; the totals of the local tables are computed    *)
(* here row by row, from the ledger as it was when the entry was taken.    *)
(***************************************************************************)

\* The words after the command word.
Parts(p) == Tail(Split(Lowered(p)))

\* The sum of the amounts of the rows at the indices I.
RECURSIVE SumAt(_, _)
SumAt(rows, I) ==
  IF I = {} THEN 0
  ELSE LET i == CHOOSE x \in I : TRUE
       IN  rows[i].amount + SumAt(rows, I \ {i})

\* The rows of a user with ts_epoch in [w.start_epoch, w.end_epoch).
InWindow(rows, user, w) ==
  {i \in 1..Len(rows) :
     /\ rows[i].user = user
     /\ w.start_epoch <= rows[i].ts_epoch
     /\ rows[i].ts_epoch < w.end_epoch}

LocalExpenses(p, cat, w) ==
  SumAt(pre[p].expenses,
        {i \in InWindow(pre[p].expenses, cur[p].user, w) :
           pre[p].expenses[i].category_id = cat})

LocalExpensesTotal(p, w) ==
  SumAt(pre[p].expenses, InWindow(pre[p].expenses, cur[p].user, w))

LocalIncomes(p, w) ==
  SumAt(pre[p].deposits, InWindow(pre[p].deposits, cur[p].user, w))

\* The window a window word names: mes and every unrecognized word the
\* current month, 7, 15 and 30 the last days.
WindowOfWord(word) ==
  IF word \in DayTokens
  THEN last_n_days_bounds_epoch_ny(now, IntOf(word))
  ELSE month_bounds_epoch_ny(now)

\* C11: in every session state a text that starts with saldo, with no
\* argument or one, changes neither the session nor the ledger, and one
\* balance message is the text handed to the notifier.
C11_SaldoOnlyReports ==
  \A p \in Procs :
    Handled(p) /\ StartsWith(Lowered(p), W_saldo) /\ Len(Parts(p)) <= 1 =>
      /\ After(p) = pre[p].sess
      /\ NoNewRecords(p)
      /\ Len(out[p]) = 1 /\ out[p][1].kind = "saldo"

\* C12: no failure of the mirror and no failure of the notifier leaves the
\* handler: for a command (reset, estado, resumen, saldo), whose handling
\* can fail in no other way, the handler reaches its "continue", and a
\* delivery of commands is answered with 200.
C12_FailuresStayInside ==
  \A p \in Procs :
    Handled(p) /\ IsCommand(Lowered(p)) => pc[p] = "end"

\* The total of a category in the totals map of a reply of the mirror: a
\* category the map does not name has none.
MirrorTotal(t, cat) == IF cat \in DOMAIN t THEN t[cat] ELSE 0

\* C13: for resumen with arguments, whenever the mirror answers with a
\* well-formed totals map (the empty map included), the totals of the report
\* are those of the map: the total of the category for a report of one
\* category, the 8 rows and their sum for the table.
C13_MirrorTotalsVerbatim ==
  \A p \in Procs :
    Handled(p) /\ StartsWith(Lowered(p), W_resumen) /\ Len(Parts(p)) >= 1
      /\ fetched[p].reply.status = "ok" =>
      /\ Len(out[p]) = 1
      /\ LET m == out[p][1]
             t == fetched[p].reply.totals
         IN  IF m.kind = "resumen_cat"
             THEN m.total = MirrorTotal(t, IntOf(m.category))
             ELSE /\ m.kind = "resumen_table"
                  /\ m.rows = [c \in CategoryIds |-> MirrorTotal(t, c)]

C15_ResumenAllFallsBack ==
  \A p \in Procs :
    Handled(p) /\ StartsWith(Lowered(p), W_resumen) /\ Len(Parts(p)) = 0
      /\ fetched[p].reply.status \in {"fail", "wrongtype"} =>
      /\ Len(out[p]) = 1
      /\ out[p][1].kind # "resumen_warning"
      /\ \A c \in CategoryIds :
           LocalExpenses(p, c, AllTime) > 0 =>
             /\ c \in DOMAIN out[p][1].totals
             /\ out[p][1].totals[c] = LocalExpenses(p, c, AllTime)

\* C16: for saldo with the mirror unavailable, the balance sent is the sum
\* of the incomes of the sender in the window minus the sum of the expenses
\* of the sender in the window, over all categories; the window is the one
\* the first argument names (the last 7, 15 or 30 days), and the current
\* month when there is no argument or the argument is another word.
C16_SaldoIsIncomeMinusExpenses ==
  \A p \in Procs :
    Handled(p) /\ StartsWith(Lowered(p), W_saldo)
      /\ fetched[p].reply.status = "fail" =>
      /\ Len(out[p]) = 1
      /\ LET w == IF Parts(p) = <<>> THEN month_bounds_epoch_ny(now)
                  ELSE WindowOfWord(Parts(p)[1])
         IN  /\ out[p][1].kind = "saldo"
             /\ out[p][1].label = w.label
             /\ out[p][1].balance =
                  LocalIncomes(p, w) - LocalExpensesTotal(p, w)

\* C16, witness: saldo 7 has been answered from the local tables, which
\* hold an income of 200.00 and expenses of 12.50 and 30.00 in the last 7
\* days: the balance sent is 157.50.
C16_SaldoSevenDays ==
  \E p \in Procs :
    /\ pc[p] = "end"
    /\ Parts(p) = << <<"7">> >>
    /\ fetched[p].reply.status = "fail"
    /\ Len(out[p]) = 1 /\ out[p][1].kind = "saldo"
    /\ out[p][1].label = DaysLabel(7)
    /\ out[p][1].inc_total = 20000
    /\ out[p][1].exp_total = 4250
    /\ out[p][1].balance = 15750

\* The category choices are presented for the entry: after a valid amount
\* where an amount of an expense was awaited, and again after a selection
\* that names no category.
ChoicesPresented(p) ==
  /\ ~IsCommand(Lowered(p)) /\ ~IsTrigger(Lowered(p))
  /\ \/ pre[p].sess.state = "awaiting_amount" /\ ValidAmount(cur[p].text)
     \/ /\ pre[p].sess.state = "awaiting_category"
        /\ Chosen(cur[p].reply_id, Lowered(p)) = NoneOpt

\* C17: every time the category choices are presented, the user gets them:
\* as the interactive list, or, when the list is not deliverable, as the
\* plain-text menu of the same 8 options.
C17_ChoicesReachTheUser ==
  \A p \in Procs :
    Handled(p) /\ ChoicesPresented(p) =>
      \E i \in 1..Len(out[p]) : out[p][i] \in {CategoryListMsg, CategoryMenuMsg}

\* C18: a delivery in which an entry was skipped for its missing sender is
\* still handled to its end: no entry of it is dropped, and it is answered
\* with 200 and never with 500.
C18_SkipThenTheRest ==
  \A p \in Procs :
    skipped[p] > 0 => pc[p] # "raised" /\ resp[p] # 500

\* The words that name a window, and the reference rule of the arguments of
\* resumen: the category (NoneOpt for all categories) and the word that
\* names the window (<<>> for the current month).
WindowWords == DayTokens \cup {W_mes}

ReferenceArgs(parts) ==
  IF Len(parts) = 1
  THEN IF parts[1] \in WindowWords
       THEN [category |-> NoneOpt, word |-> parts[1]]
       ELSE IF parts[1] \in CategoryKeys
            THEN [category |-> Some(parts[1]), word |-> <<>>]
            ELSE [category |-> NoneOpt, word |-> <<>>]
  ELSE IF parts[1] \in CategoryKeys
       THEN [category |-> Some(parts[1]), word |-> parts[2]]
       ELSE [category |-> NoneOpt, word |-> parts[1]]

\* C19: for every list of one or more arguments of resumen, the report is
\* for the category and over the window of the reference rule: the query to
\* the mirror and the label carry that window, and the text is the report
\* of that category, or the table when the rule names none.
C19_ResumenArgsAsReference ==
  \A p \in Procs :
    Handled(p) /\ StartsWith(Lowered(p), W_resumen) /\ Len(Parts(p)) >= 1 =>
      LET ref == ReferenceArgs(Parts(p))
      IN  /\ fetched[p].w = WindowOfWord(ref.word)
          /\ fetched[p].reply.status # "wrongtype" =>
               /\ Len(out[p]) = 1
               /\ out[p][1].label = WindowOfWord(ref.word).label
               /\ IF ref.category = NoneOpt
                  THEN out[p][1].kind = "resumen_table"
                  ELSE /\ out[p][1].kind = "resumen_cat"
                       /\ out[p][1].category = ref.category[1]

\* C19, witness: "resumen 7 15" has been answered with the report of
\* category 7 over the last 15 days.
C19_CategorySevenFifteenDays ==
  \E p \in Procs :
    /\ pc[p] = "end"
    /\ Parts(p) = << <<"7">>, <<"1", "5">> >>
    /\ Len(out[p]) = 1 /\ out[p][1].kind = "resumen_cat"
    /\ out[p][1].category = <<"7">>
    /\ out[p][1].label = DaysLabel(15)

\* C20: for every sender, window and expenses table,
\* get_totals_all_categories_in_range has an entry for each of the 8 catalog
\* ids, 0 for a category without rows in the window, and the grand total of
\* the table rendered from it is the sum of the 8 entries.
C20_EightTotalsAndTheirSum ==
  \A p \in Procs :
    Handled(p) /\ fetched[p].reply.status = "fail"
      /\ Len(out[p]) = 1 /\ out[p][1].kind = "resumen_table" =>
      LET w == fetched[p].w
          t == get_totals_all_categories_in_range(
                 pre[p].expenses, cur[p].user, w.start_epoch, w.end_epoch)
      IN  /\ DOMAIN t = 1..8
          /\ \A c \in 1..8 : t[c] = LocalExpenses(p, c, w)
          /\ out[p][1].rows = t
          /\ out[p][1].grand_total =
               t[1] + t[2] + t[3] + t[4] + t[5] + t[6] + t[7] + t[8]

\* C20, witness: a table has been sent with 30.00 in category 1, 12.50 in
\* category 6, 0 in the other six and a grand total of 42.50.
C20_TableWithEmptyCategories ==
  \E p \in Procs :
    /\ pc[p] = "end" /\ fetched[p].reply.status = "fail"
    /\ Len(out[p]) = 1 /\ out[p][1].kind = "resumen_table"
    /\ out[p][1].rows = [c \in 1..8 |-> IF c = 1 THEN 3000
                                        ELSE IF c = 6 THEN 1250 ELSE 0]
    /\ out[p][1].grand_total = 4250

(***************************************************************************)
(* The utilities.                                                          *)
(***************************************************************************)

\* The text with every separator written as ".", and with every separator
\* written as ",".
WithDots(t) == [i \in 1..Len(t) |-> IF t[i] = "," THEN "." ELSE t[i]]
WithCommas(t) == [i \in 1..Len(t) |-> IF t[i] = "." THEN "," ELSE t[i]]

HasDigit(t) == \E i \in 1..Len(t) : t[i] \in Digits

\* A text that is digits, one separator and one or two digits, and the
\* cents it is worth.
IsPlainDecimal(t) ==
  \E k \in 2..Len(t) - 1 :
    /\ t[k] \in {",", "."}
    /\ Len(t) - k \in {1, 2}
    /\ \A i \in 1..Len(t) : i # k => t[i] \in Digits

CentsOf(t) ==
  LET k == CHOOSE i \in 1..Len(t) : t[i] \in {",", "."}
      frac == SubSeq(t, k + 1, Len(t))
  IN  100 * IntOf(SubSeq(t, 1, k - 1))
        + (IF Len(frac) = 1 THEN 10 * IntOf(frac) ELSE IntOf(frac))

SameForBothSeparators ==
  /\ ret.value = normalize_amount(WithDots(arg.text))
  /\ ret.value = normalize_amount(WithCommas(arg.text))
  /\ IsPlainDecimal(arg.text) => ret.value = Some(CentsOf(arg.text))

\* C21, as the code has it: normalize_amount returns the same value rounded
\* to 2 decimals whether the separator is written "," or ".", and returns
\* None exactly for the texts without a digit; a value that is zero or
\* negative is returned as it is (its callers test "amount <= 0").
C21_NoneOnlyWithoutNumber ==
  arg.fn = "normalize_amount" /\ ret.done =>
    /\ SameForBothSeparators
    /\ ret.value = NoneOpt <=> ~HasDigit(arg.text)

\* C21, witness: "-3,1" has been parsed, to -3.10.
C21_NegativeWithComma ==
  /\ arg.fn = "normalize_amount" /\ ret.done
  /\ arg.text = <<"-", "3", ",", "1">>
  /\ ret.value = Some(0 - 310)

\* C21, as stated: the same value for both separators, and None for every
\* text without a numeric token and for every text whose value is zero or
\* negative.
C21_NoneForNonPositive ==
  arg.fn = "normalize_amount" /\ ret.done =>
    /\ SameForBothSeparators
    /\ ~HasDigit(arg.text) => ret.value = NoneOpt
    /\ ret.value # NoneOpt => ret.value[1] > 0

\* The civil date and the time of day the reference zone shows at the
\* instant e.
LocalDate(e) == civil_from_days(WallOf(e) \div DAY)
LocalSeconds(e) == WallOf(e) % DAY

\* The instant e is 00:00:00 of the first day of month m of year y there.
IsFirstMidnight(e, y, m) ==
  /\ LocalSeconds(e) = 0
  /\ LocalDate(e) = [year |-> y, month |-> m, day |-> 1]

\* The civil days from the date of the instant a to the date of b.
LocalDaysBetween(a, b) == WallOf(b) \div DAY - WallOf(a) \div DAY

\* C22: the month window starts at 00:00:00 of day 1 of the civil month of
\* now in the reference zone and ends at 00:00:00 of day 1 of the next
\* month, with start <= now < end; in December the end is 1 January of the
\* next year; in November the start is the 1st at local midnight and the
\* end is 30 civil days later.
C22_MonthWindow ==
  arg.fn = "month_bounds_epoch_ny" /\ ret.done =>
    LET w == ret.value
        c == LocalDate(now)
    IN  /\ w.start_epoch <= now /\ now < w.end_epoch
        /\ IsFirstMidnight(w.start_epoch, c.year, c.month)
        /\ IF c.month = 12
           THEN IsFirstMidnight(w.end_epoch, c.year + 1, 1)
           ELSE IsFirstMidnight(w.end_epoch, c.year, c.month + 1)
        /\ c.month = 11 => LocalDaysBetween(w.start_epoch, w.end_epoch) = 30

\* The call made on the last second of 2026 in New York gives the window
\* from 1 December 2026 05:00 UTC to 1 January 2027 05:00 UTC.
C22_DecemberRollsOver ==
  /\ arg.fn = "month_bounds_epoch_ny" /\ ret.done
  /\ now = 1798779599
  /\ ret.value.start_epoch = 1796101200
  /\ ret.value.end_epoch = 1798779600

\* The indices of the rows the query of the call is to count: the rows of
\* the user of the call with start_epoch <= ts_epoch < end_epoch.
Counted(rows) ==
  {i \in 1..Len(rows) :
     /\ rows[i].user = arg.user
     /\ arg.start_epoch <= rows[i].ts_epoch
     /\ rows[i].ts_epoch < arg.end_epoch}

\* C27: category_total and income_total over [start, end) are the sum of
\* exactly the records of that user (and, for category_total, of that
\* category) with start <= ts_epoch < end: a record at ts_epoch = start is
\* counted, one at ts_epoch = end is not, the records of other users and
\* categories are not, and the total is 0 when no record matches.
C27_TotalsOverHalfOpenWindow ==
  ret.done =>
    /\ arg.fn = "get_total_for_category_in_range" =>
         /\ ret.value =
              SumAt(expenses,
                    {i \in Counted(expenses) :
                       expenses[i].category_id = arg.category_id})
         /\ (\A i \in 1..Len(expenses) :
               \/ expenses[i].user # arg.user
               \/ expenses[i].category_id # arg.category_id
               \/ expenses[i].ts_epoch = arg.end_epoch) => ret.value = 0
    /\ arg.fn = "get_income_total_in_range" =>
         /\ ret.value = SumAt(deposits, Counted(deposits))
         /\ (\A i \in 1..Len(deposits) :
               \/ deposits[i].user # arg.user
               \/ deposits[i].ts_epoch = arg.end_epoch) => ret.value = 0

\* Of an expense at the start of the window and one of the same user and
\* category at its end, only the first is in the total.
C27_StartCountedEndNot ==
  /\ arg.fn = "get_total_for_category_in_range" /\ ret.done
  /\ Len(expenses) = 2
  /\ \A i \in 1..2 : expenses[i].user = arg.user
                     /\ expenses[i].category_id = arg.category_id
  /\ expenses[1].ts_epoch = arg.start_epoch /\ expenses[1].amount = 250
  /\ expenses[2].ts_epoch = arg.end_epoch /\ expenses[2].amount = 100
  /\ ret.value = 250

(***************************************************************************)
(* The session table.                                                      *)
(***************************************************************************)

AwaitingChoice == {"awaiting_category", "awaiting_income_source"}

\* C24: the row of a user holds a pending amount, and one above zero,
\* exactly when its state is awaiting_category or awaiting_income_source;
\* in idle, awaiting_amount and awaiting_income_amount it holds none.  The
\* table is keyed by user, so a user has at most one row.
C24_PendingIffAwaitingChoice ==
  \A u \in Users :
    sessions[u].present =>
      /\ sessions[u].state \in States
      /\ sessions[u].state \in AwaitingChoice <=> sessions[u].amount # NoneOpt
      /\ sessions[u].amount # NoneOpt => sessions[u].amount[1] > 0

\* A reset has ended where an income of 200.00 waited for its source: the
\* row is idle with no amount, and the row get_session wrote for a user
\* that had none stands beside it.
C24_RowsAfterResetAndInsert ==
  \E p \in Procs :
    /\ pc[p] = "end" /\ IsReset(p)
    /\ pre[p].sess = [state |-> "awaiting_income_source", amount |-> Some(20000)]
    /\ sessions[cur[p].user] =
         [present |-> TRUE, state |-> "idle", amount |-> NoneOpt]
    /\ \E u \in Users \ {cur[p].user} :
         sessions[u] = [present |-> TRUE, state |-> "idle", amount |-> NoneOpt]

(***************************************************************************)
(* One event at a time.                                                    *)
(***************************************************************************)

\* C26: the handling of an event depends only on the event, the session of
\* its sender and the stores: two handlers that have each finished the same
\* event, taken up with the same session and the same ledger, have handed
\* the same texts to the notifier, whatever came earlier in their
\* deliveries.
C26_SameEventSameMessages ==
  \A p \in Procs : \A q \in Procs :
    Handled(p) /\ Handled(q) /\ cur[p] = cur[q] /\ pre[p] = pre[q] =>
      out[p] = out[q]

====
